---- MODULE Spec2Model ----
(***************************************************************************)
(* Model of peptides.ranges: the range() constructor, the _Pattern and     *)
(* _Range classes (src/peptides/ranges/__init__.py).                       *)
(*                                                                         *)
(* A Python object is a record [t, v]:                                     *)
(*   t = "int"    the integer v                                            *)
(*   t = "float"  the finite float v/2 (v odd: a non-whole float)          *)
(*   t = "inf"    float infinity of sign v (1 or -1)                       *)
(*   t = "nan"    float NaN                                                *)
(*   t = "str"    the string of the decimal digits of v (e.g. '5')         *)
(*   t = "word"   a string that is not a numeral (e.g. 'a')                *)
(*   t = "none"   None                                                     *)
(* An outcome of a call is a record [exc, val]: exc = "none" and the       *)
(* returned value, or the name of the exception that propagated.           *)
(***************************************************************************)
EXTENDS Integers, Sequences, FiniteSets, TLC

VARIABLES args, pc, exc, r, lenres, it, out, probe, cres, prev, op, call,
          it2, out2, depth,
          tcall, tpc, texc, fake, src, fb_value, inner, result, results, fb,
          rpc, rexc, seeded, stream, blocks, last, after

\* the range under test and what was observed of it
rangeVars == <<args, pc, exc, r, lenres, it, out, probe, cres, prev, op, call,
               it2, out2, depth>>

\* the Timer call in progress, the FakeTimer and the feedback generator
timeitVars == <<tcall, tpc, texc, fake, src, fb_value, inner, result, results, fb>>

\* the Seeded generator, the words its seed makes it produce, the
\* revert_state blocks that are open and the draws made
randomVars == <<rpc, rexc, seeded, stream, blocks, last, after>>

utilVars == <<timeitVars, randomVars>>

vars == <<rangeVars, timeitVars, randomVars>>

\* what the calls on one range leave alone
ext == <<it2, out2, depth, utilVars>>

\* ---- bounds of the explored inputs ----
MaxVal == 2      \* start and finite stop range over -MaxVal..MaxVal
MaxStep == 3     \* each step ranges over -MaxStep..MaxStep
MaxSteps == 2    \* longest step sequence passed to range()
MaxIter == 5     \* most elements pulled from one iterator
MaxShift == 1    \* scalars added or subtracted range over -MaxShift..MaxShift
MaxFactor == 2   \* non-zero scalars multiplied range over -MaxFactor..MaxFactor
MaxIndex == 4    \* indices passed to [] range over -2..MaxIndex
MaxDepth == 2    \* longest chain of +, -, *, unary - applied to one range
MaxIterations == 2  \* iteration counts passed to Timer range over 0..MaxIterations
MaxTrials == 2   \* most trials asked of Timer.repeat
MaxSpi == 2      \* FakeTimer seconds_per_increment ranges over 1..MaxSpi ticks
MaxMinTime == 3  \* autorange(min_time): min_time ranges over 0..MaxMinTime ticks
MaxDraws == 3    \* words one Seeded generator produces, and draws noted in a row
MaxNest == 2     \* revert_state blocks open at once

\* ---- Python objects ----
PyInt(n) == [t |-> "int", v |-> n]
Float(h) == [t |-> "float", v |-> h]
inf == [t |-> "inf", v |-> 1]
NegInf == [t |-> "inf", v |-> -1]
nan == [t |-> "nan", v |-> 0]
Str(n) == [t |-> "str", v |-> n]
Word == [t |-> "word", v |-> 0]
None == [t |-> "none", v |-> 0]

Return(x) == [exc |-> "none", val |-> x]
Raise(e, x) == [exc |-> e, val |-> x]

abs(x) == IF x < 0 THEN -x ELSE x

\* isinstance(x, int) / isinstance(x, float)
isinstance_int(x) == x.t = "int"
isinstance_float(x) == x.t \in {"float", "inf", "nan"}

\* twice the numeric value of a finite number
Num2(x) == IF x.t = "int" THEN 2 * x.v ELSE x.v

\* a < b and a <= b on Python numbers (int, float, +-inf; NaN compares false)
Lt(a, b) ==
    IF a.t = "nan" \/ b.t = "nan" THEN FALSE
    ELSE IF a.t = "inf" /\ b.t = "inf" THEN a.v < b.v
    ELSE IF a.t = "inf" THEN a.v < 0
    ELSE IF b.t = "inf" THEN b.v > 0
    ELSE Num2(a) < Num2(b)
NumEq(a, b) ==
    IF a.t = "nan" \/ b.t = "nan" THEN FALSE
    ELSE IF a.t = "inf" \/ b.t = "inf" THEN a.t = b.t /\ a.v = b.v
    ELSE Num2(a) = Num2(b)
Le(a, b) == Lt(a, b) \/ NumEq(a, b)

\* a - b for an int a and a number b; abs() of a number
Sub(a, b) ==
    IF b.t = "inf" THEN [t |-> "inf", v |-> -b.v]
    ELSE IF b.t = "int" THEN PyInt(a - b.v)
    ELSE IF b.t = "float" THEN Float(2 * a - b.v)
    ELSE nan
Abs(x) == IF x.t \in {"int", "float"} THEN [x EXCEPT !.v = abs(x.v)]
          ELSE IF x.t = "inf" THEN inf ELSE x

\* b + n and b * k for a number b (an int or a float infinity) and an int
AddNum(b, n) == IF b.t = "int" THEN PyInt(b.v + n) ELSE b
MulNum(b, k) ==
    IF b.t = "int" THEN PyInt(b.v * k)
    ELSE IF b.t = "inf" /\ k > 0 THEN b
    ELSE IF b.t = "inf" /\ k < 0 THEN [t |-> "inf", v |-> -b.v]
    ELSE nan

\* Python's floored % and // for integers, divisor of either sign
PyMod(a, b) == IF b > 0 THEN a % b ELSE -((-a) % (-b))
PyFloorDiv(a, b) == IF b > 0 THEN (a - PyMod(a, b)) \div b
                    ELSE (PyMod(a, b) - a) \div (-b)

\* ---- _Pattern ----
Pattern_size(steps) == steps[Len(steps)]

\* The loop of _index. Callers pass abs(value) < abs(size), so the last
\* candidate always ends the scan; running off the end is not reached.
RECURSIVE Pattern_index_scan(_, _, _)
Pattern_index_scan(steps, value, i) ==
    IF i > Len(steps) THEN [before |-> 0, found |-> FALSE]
    ELSE IF abs(steps[i]) >= abs(value)
         THEN [before |-> i, found |-> steps[i] = value]
         ELSE Pattern_index_scan(steps, value, i + 1)

\* Pattern_index without the special case for value == 0
Pattern_index_nozero(steps, value) == Pattern_index_scan(steps, value, 1)

Pattern_index(steps, value) ==
    IF value = 0 THEN [before |-> 0, found |-> TRUE]
    ELSE Pattern_index_scan(steps, value, 1)

\* _Pattern.__contains__ without the reduction modulo the size
Pattern_contains_nomod(steps, index) == Pattern_index(steps, index).found

Pattern_contains(steps, index) ==
    Pattern_index(steps, PyMod(index, Pattern_size(steps))).found

\* count multiplying the whole periods by the size, not by len(steps)
Pattern_count_size(steps, distance) ==
    LET q == PyFloorDiv(distance, Pattern_size(steps))
        rem == PyMod(distance, Pattern_size(steps))
    IN  q * Pattern_size(steps) + Pattern_index(steps, rem).before

Pattern_count(steps, distance) ==
    LET q == PyFloorDiv(distance, Pattern_size(steps))
        rem == PyMod(distance, Pattern_size(steps))
    IN  q * Len(steps) + Pattern_index(steps, rem).before

\* _Pattern.__getitem__ for an integer index (steps is 1-based here)
Pattern_getitem(steps, index) ==
    LET step_q == PyFloorDiv(index - 1, Len(steps))
        step_r == PyMod(index - 1, Len(steps))
    IN  step_q * Pattern_size(steps) + steps[step_r + 1]

\* _Pattern.__mul__ keeping the magnitudes' sign
Pattern_mul_abs(steps, scalar) == [i \in 1..Len(steps) |-> abs(steps[i]) * scalar]

Pattern_mul(steps, scalar) == [i \in 1..Len(steps) |-> steps[i] * scalar]

\* __iter__ advancing the period offset by the first step, not by the size
Pattern_iter_firststep(steps, g) ==
    IF g.at = "start" THEN [val |-> 0, g |-> [at |-> "y0", offset |-> 0, idx |-> 1]]
    ELSE IF g.at = "y0"
         THEN [val |-> steps[1], g |-> [at |-> "loop", offset |-> 0, idx |-> 1]]
    ELSE IF g.idx < Len(steps)
         THEN [val |-> g.offset + steps[g.idx + 1], g |-> [g EXCEPT !.idx = @ + 1]]
    ELSE LET o == g.offset + steps[1]
         IN  [val |-> o + steps[1], g |-> [at |-> "loop", offset |-> o, idx |-> 1]]

\* __iter__ without the leading `yield 0`
Pattern_iter_skip0(steps, g) ==
    IF g.at \in {"start", "y0"}
    THEN [val |-> steps[1], g |-> [at |-> "loop", offset |-> 0, idx |-> 1]]
    ELSE IF g.idx < Len(steps)
         THEN [val |-> g.offset + steps[g.idx + 1], g |-> [g EXCEPT !.idx = @ + 1]]
    ELSE LET o == g.offset + Pattern_size(steps)
         IN  [val |-> o + steps[1], g |-> [at |-> "loop", offset |-> o, idx |-> 1]]

\* The generator of _Pattern.__iter__, suspended at
\*   "start" (not yet run), "y0" (at `yield 0`),
\*   "loop" (at `yield offset + step`, step = steps[idx]).
\* One resumption: the value yielded and the new suspension point.
Pattern_iter(steps, g) ==
    IF g.at = "start" THEN [val |-> 0, g |-> [at |-> "y0", offset |-> 0, idx |-> 1]]
    ELSE IF g.at = "y0"
         THEN [val |-> steps[1], g |-> [at |-> "loop", offset |-> 0, idx |-> 1]]
    ELSE IF g.idx < Len(steps)
         THEN [val |-> g.offset + steps[g.idx + 1], g |-> [g EXCEPT !.idx = @ + 1]]
    ELSE LET o == g.offset + Pattern_size(steps)
         IN  [val |-> o + steps[1], g |-> [at |-> "loop", offset |-> o, idx |-> 1]]

\* ---- combine_and (intersection of two ascending patterns) ----
RECURSIVE GCD(_, _)
GCD(a, b) == IF b = 0 THEN a ELSE GCD(b, a % b)
LCM(a, b) == (a * b) \div GCD(a, b)

\* the offsets below L that iterating the pattern yields
RECURSIVE PatternHitsFrom(_, _, _)
PatternHitsFrom(steps, g, L) ==
    LET n == Pattern_iter(steps, g)
    IN  IF n.val >= L THEN {}
        ELSE {n.val} \cup PatternHitsFrom(steps, n.g, L)
PatternHits(steps, L) ==
    PatternHitsFrom(steps, [at |-> "start", offset |-> 0, idx |-> 0], L)

RECURSIVE SortedSeq(_)
SortedSeq(S) ==
    IF S = {} THEN <<>>
    ELSE LET m == CHOOSE x \in S : \A y \in S : x <= y
         IN  <<m>> \o SortedSeq(S \ {m})

combine_and(p, q) ==
    LET L == LCM(abs(Pattern_size(p)), abs(Pattern_size(q)))
        both == PatternHits(p, L) \cap PatternHits(q, L)
    IN  SortedSeq(both \ {0}) \o <<L>>

\* ---- int_or_inf ----
\* int_or_inf accepting every float
int_or_inf_anyfloat(x) == isinstance_int(x) \/ isinstance_float(x)

int_or_inf(x) == isinstance_int(x) \/ x.t = "inf"

\* ---- _Range ----
NoRange == [start |-> 0, stop |-> PyInt(0), steps |-> <<>>]

Range_init(start, stop, steps) ==
    IF ~isinstance_int(start) THEN Raise("AssertionError", NoRange)
    ELSE IF ~int_or_inf(stop) THEN Raise("AssertionError", NoRange)
    ELSE Return([start |-> start.v, stop |-> stop, steps |-> steps])

Range_signed(rng, value) ==
    IF Lt(rng.stop, PyInt(rng.start)) THEN -value ELSE value

Range_in_bounds(rng, value) ==
    0 <= value /\ Le(PyInt(value), Abs(Sub(rng.start, rng.stop)))

\* __len__ counting over abs(stop - start)
Range_len_abs(rng) ==
    IF isinstance_float(rng.stop) THEN Raise("ValueError", 0)
    ELSE Return(Pattern_count(rng.steps, abs(rng.stop.v - rng.start)))

\* __len__ testing `self.stop == inf`: divmod(-inf, size) is (nan, nan) and
\* the assertion of _index fails
Range_len_posinf(rng) ==
    IF rng.stop = inf THEN Raise("ValueError", 0)
    ELSE IF rng.stop.t # "int" THEN Raise("AssertionError", 0)
    ELSE Return(Pattern_count(rng.steps, rng.stop.v - rng.start))

Range_len(rng) ==
    IF isinstance_float(rng.stop) THEN Raise("ValueError", 0)
    ELSE Return(Pattern_count(rng.steps, rng.stop.v - rng.start))

Range_getitem(rng, item) ==
    LET distance == Pattern_getitem(rng.steps, item)
    IN  IF ~Range_in_bounds(rng, distance) THEN Raise("IndexError", 0)
        ELSE Return(rng.start + Range_signed(rng, distance))

\* str(r): the text "range(a, b, ...)", kept as the sequence of the objects
\* printed between the parentheses
Range_str_stepsfirst(rng) ==
    IF rng.steps # <<1>> THEN <<PyInt(rng.start), rng.stop>>
                              \o [i \in 1..Len(rng.steps) |-> PyInt(rng.steps[i])]
    ELSE IF rng.stop = PyInt(rng.start) THEN <<>>
    ELSE IF rng.start = 0 THEN <<rng.stop>>
    ELSE <<PyInt(rng.start), rng.stop>>

Range_str(rng) ==
    IF rng.stop = PyInt(rng.start) THEN <<>>
    ELSE IF rng.steps # <<1>> THEN <<PyInt(rng.start), rng.stop>>
                              \o [i \in 1..Len(rng.steps) |-> PyInt(rng.steps[i])]
    ELSE IF rng.start = 0 THEN <<rng.stop>>
    ELSE <<PyInt(rng.start), rng.stop>>

\* __repr__ = __str__
Range_repr(rng) == Range_str(rng)

Range_eq(a, b) ==
    a.start = b.start /\ NumEq(a.stop, b.stop) /\ a.steps = b.steps

\* __add__ shifting the start only
Range_add_nostop(rng, scalar) ==
    Range_init(PyInt(rng.start + scalar), rng.stop, rng.steps)

Range_add(rng, scalar) ==
    Range_init(PyInt(rng.start + scalar), AddNum(rng.stop, scalar), rng.steps)

\* __sub__ returning self + scalar
Range_sub_plus(rng, scalar) == Range_add(rng, scalar)

Range_sub(rng, scalar) == Range_add(rng, -scalar)

\* __mul__ leaving stop unscaled
Range_mul_stop(rng, scalar) ==
    Range_init(PyInt(rng.start * scalar), rng.stop, Pattern_mul(rng.steps, scalar))

Range_mul(rng, scalar) ==
    Range_init(PyInt(rng.start * scalar), MulNum(rng.stop, scalar),
               Pattern_mul(rng.steps, scalar))

\* __neg__ negating start and stop but keeping the pattern
Range_neg_steps(rng) ==
    Range_init(PyInt(-rng.start), MulNum(rng.stop, -1), rng.steps)

Range_neg(rng) == Range_mul(rng, -1)

\* int(value): the conversion at the head of __contains__
int(value) ==
    IF value.t = "int" THEN Return(value.v)
    ELSE IF value.t = "float"
         THEN Return(IF value.v >= 0 THEN value.v \div 2 ELSE -((-value.v) \div 2))
    ELSE IF value.t = "inf" THEN Raise("OverflowError", 0)
    ELSE IF value.t = "nan" THEN Raise("ValueError", 0)
    ELSE IF value.t = "str" THEN Return(value.v)
    ELSE IF value.t = "word" THEN Raise("ValueError", 0)
    ELSE Raise("TypeError", 0)

\* as_int != value
NotEqualInt(as_int, value) ==
    IF value.t \in {"int", "float"} THEN 2 * as_int # Num2(value) ELSE TRUE

Range_contains(rng, value) ==
    LET as_int == int(value)
    IN  IF as_int.exc \in {"ValueError", "TypeError"} THEN Return(FALSE)
        ELSE IF as_int.exc # "none" THEN Raise(as_int.exc, FALSE)
        ELSE IF NotEqualInt(as_int.val, value) THEN Return(FALSE)
        ELSE LET distance == Range_signed(rng, as_int.val - rng.start)
             IN  IF ~Range_in_bounds(rng, distance) THEN Return(FALSE)
                 ELSE Return(Pattern_contains(rng.steps, distance))

\* `if abs(i) > limit: return`
Range_iter_stops_gt(i, limit) == Lt(limit, PyInt(abs(i)))

\* `if abs(i) >= limit: return` of _Range.__iter__
Range_iter_stops(i, limit) == Le(limit, PyInt(abs(i)))

\* __iter__ with limit = abs(self.stop)
Range_iter_stoplimit(rng, g) ==
    LET limit == Abs(rng.stop)
        n == Pattern_iter(rng.steps, g)
    IN  IF Range_iter_stops(n.val, limit)
        THEN [done |-> TRUE, val |-> 0, g |-> [at |-> "done", offset |-> 0, idx |-> 0]]
        ELSE [done |-> FALSE, val |-> rng.start + n.val, g |-> n.g]

\* One resumption of the generator of _Range.__iter__.
Range_iter(rng, g) ==
    LET limit == Abs(Sub(rng.start, rng.stop))
        n == Pattern_iter(rng.steps, g)
    IN  IF Range_iter_stops(n.val, limit)
        THEN [done |-> TRUE, val |-> 0, g |-> [at |-> "done", offset |-> 0, idx |-> 0]]
        ELSE [done |-> FALSE, val |-> rng.start + n.val, g |-> n.g]

\* ---- range(*args) ----
steps_typed(steps) == \A i \in 1..Len(steps) : isinstance_int(steps[i])
zero_in_steps(steps) == \E i \in 1..Len(steps) : steps[i].v = 0
\* the step check with >= 0 in place of > 0
step_sequence_ok_ge(steps, step_direction) ==
    \A i \in 1..(Len(steps) - 1) :
        (steps[i + 1].v - steps[i].v) * step_direction >= 0
step_sequence_ok(steps, step_direction) ==
    \A i \in 1..(Len(steps) - 1) :
        (steps[i + 1].v - steps[i].v) * step_direction > 0
\* the start check letting float infinities through
start_typed_inf(start) == isinstance_int(start) \/ start.t = "inf"
start_typed(start) == isinstance_int(start)

\* unpacking of *args
arg_start(a) == IF Len(a) >= 2 THEN a[1] ELSE PyInt(0)
arg_stop(a) == IF Len(a) >= 2 THEN a[2] ELSE IF Len(a) = 1 THEN a[1] ELSE PyInt(0)
arg_steps(a) == IF Len(a) > 2 THEN SubSeq(a, 3, Len(a)) ELSE <<PyInt(1)>>

range(a) ==
    LET start == arg_start(a)
        stop == arg_stop(a)
        steps == arg_steps(a)
    IN  IF ~start_typed(start) THEN Raise("TypeError", NoRange)
        ELSE IF ~int_or_inf(stop) THEN Raise("TypeError", NoRange)
        ELSE IF ~steps_typed(steps) THEN Raise("TypeError", NoRange)
        ELSE IF zero_in_steps(steps) THEN Raise("ValueError", NoRange)
        ELSE LET step_direction == IF steps[1].v < 0 THEN -1 ELSE 1
                 range_direction == IF Lt(stop, start) THEN -1 ELSE 1
                 stop1 == IF step_direction # range_direction THEN start ELSE stop
             IN  IF ~step_sequence_ok(steps, step_direction)
                 THEN Raise("ValueError", NoRange)
                 ELSE Range_init(start, stop1, [i \in 1..Len(steps) |-> steps[i].v])

\* ---- the inputs ----
Ints(S) == {PyInt(n) : n \in S}
Starts == Ints(-MaxVal..MaxVal)
Stops == Ints(-MaxVal..MaxVal) \cup {inf, NegInf}
StepSeqs == UNION {[1..n -> Ints(-MaxStep..MaxStep)] : n \in 1..MaxSteps}
AnyStart == {PyInt(0), None, Word, inf, NegInf, Float(1)}
AnyStop == {PyInt(1), inf, None, Word, Float(7), nan}
AnySteps == {<<PyInt(1)>>, <<Word>>, <<PyInt(1), Word>>, <<Word, PyInt(0)>>,
             <<Float(2)>>, <<None>>, <<Str(111)>>, <<Str(0)>>}
ArgLists ==
    {<<>>}
    \cup {<<b>> : b \in Stops \cup AnyStop}
    \cup {<<a, b>> : a \in Starts, b \in Stops}
    \cup {<<a, b>> : a \in AnyStart, b \in AnyStop}
    \cup {<<a, b>> \o s : a \in Starts, b \in Stops, s \in StepSeqs}
    \cup {<<a, b>> \o s : a \in AnyStart, b \in AnyStop, s \in AnySteps}
Probes ==
    Ints(-(MaxVal + 1)..(MaxVal + 1))
    \cup {Float(2), Float(1), inf, NegInf, nan, Str(1), Word, None}

NoIter == [at |-> "none", offset |-> 0, idx |-> 0]
NoResult == [called |-> FALSE, exc |-> "none", val |-> 0]
NoContains == [called |-> FALSE, exc |-> "none", val |-> FALSE]
NoOp == [name |-> "none", n |-> 0]
NoCall == [name |-> "none", arg |-> 0, q |-> <<>>, exc |-> "none",
           ival |-> 0, sval |-> <<>>]
Shifts == -MaxShift..MaxShift
Factors == (-MaxFactor..MaxFactor) \ {0}
Indices == -2..MaxIndex
AscendingPatterns ==
    {q \in UNION {[1..n -> 1..MaxStep] : n \in 1..MaxSteps} :
        \A i \in 1..(Len(q) - 1) : q[i] < q[i + 1]}

\* ---- peptides.timeit, timed with the FakeTimer of the tests ----
\* Times are whole numbers of ticks of 1/5120 s, so that 1/1024 s, 0.2 s and
\* 1 s are whole; the FakeTimer's readings are then exact.
Tick1024th == 5
TickSecond == 5120
AutoMinTime == 1024
BASE_TIME == 42 * TickSecond

\* a FakeTimer as constructed, and the reading FakeTimer.__call__ returns
FakeTimer == [count |-> 0, setup_calls |-> 0]
FakeTimer_call(f, seconds_per_increment) ==
    BASE_TIME + f.count * seconds_per_increment

\* what Timer.timeit returns: the float timing / iterations, or the tuple
\* (timing, iterations)
NoTiming == [t |-> "none", time |-> 0, n |-> 0]

\* the end of Timer.timeit: timing is iterations readings apart, so the
\* division is exact
Timer_timeit_callback(timing, iterations, callback) ==
    IF callback = "none"
    THEN IF iterations = 0 THEN Raise("ZeroDivisionError", NoTiming)
         ELSE Return([t |-> "num", time |-> timing \div iterations, n |-> 0])
    ELSE Return([t |-> "pair", time |-> timing, n |-> iterations])

\* the locals of inner(), with the number of times it ran setup, ran stmt and
\* read the timer
NoInner == [left |-> 0, t0 |-> 0, t1 |-> 0, setups |-> 0, stmts |-> 0, reads |-> 0]

\* `it = itertools.repeat(None, iterations)` and the call of inner
Timer_timeit_enter(iterations) == [NoInner EXCEPT !.left = iterations]

\* The iterator `trials` of Timer.repeat: a list iterator or an
\* itertools.repeat (items: the values still to come), or the generator of
\* autorange suspended at `yield number`, number = i * Js[jx].
NoSource == [kind |-> "none", items |-> <<>>, i |-> 0, jx |-> 0, at |-> "none",
             min_time |-> 0]
iter_list(items) == [NoSource EXCEPT !.kind = "list", !.items = items]
itertools_repeat(object, times) ==
    [NoSource EXCEPT !.kind = "repeat", !.items = [k \in 1..times |-> object]]
autorange(min_time) ==
    [NoSource EXCEPT !.kind = "autorange", !.at = "start", !.min_time = min_time]

\* `for j in 1, 2, 5`
Js == <<1, 2, 5>>

Outcome(e, v, s) == [exc |-> e, val |-> v, src |-> s]
Finished(s) == [s EXCEPT !.at = "done"]

autorange_yield(s, i, jx) ==
    Outcome("none", i * Js[jx], [s EXCEPT !.i = i, !.jx = jx, !.at = "yield"])

\* autorange going on until total_time > min_time
autorange_send_gt(s, sent) ==
    IF s.at = "done" THEN Outcome("StopIteration", 0, s)
    ELSE IF sent.t # "pair" THEN Outcome("TypeError", 0, Finished(s))
    ELSE IF sent.n # s.i * Js[s.jx] THEN Outcome("AssertionError", 0, Finished(s))
    ELSE IF sent.time > s.min_time THEN Outcome("StopIteration", 0, Finished(s))
    ELSE IF s.jx < Len(Js) THEN autorange_yield(s, s.i, s.jx + 1)
    ELSE autorange_yield(s, s.i * 10, 1)

\* generator.send(sent) on autorange suspended at `yield number`
autorange_send(s, sent) ==
    IF s.at = "done" THEN Outcome("StopIteration", 0, s)
    ELSE IF sent.t # "pair" THEN Outcome("TypeError", 0, Finished(s))
    ELSE IF sent.n # s.i * Js[s.jx] THEN Outcome("AssertionError", 0, Finished(s))
    ELSE IF sent.time >= s.min_time THEN Outcome("StopIteration", 0, Finished(s))
    ELSE IF s.jx < Len(Js) THEN autorange_yield(s, s.i, s.jx + 1)
    ELSE autorange_yield(s, s.i * 10, 1)

\* next(generator): the first resumption runs to the first yield; a later one
\* is send(None)
autorange_next(s) ==
    IF s.at = "start" THEN autorange_yield(s, 1, 1)
    ELSE autorange_send(s, NoTiming)

\* next(source)
Source_next(s) ==
    IF s.kind = "autorange" THEN autorange_next(s)
    ELSE IF s.items = <<>> THEN Outcome("StopIteration", 0, s)
    ELSE Outcome("none", Head(s.items), [s EXCEPT !.items = Tail(@)])

\* get_next always falling back to next(original_generator)
get_next_nosend(s, res) == [how |-> "next", o |-> Source_next(s)]

\* get_next(result) of feedback: the source's send when it has one
get_next(s, res) ==
    IF s.kind = "autorange" THEN [how |-> "send", o |-> autorange_send(s, res)]
    ELSE [how |-> "next", o |-> Source_next(s)]

\* what feedback did: how each value was got from the source, and the
\* arguments of the calls of func
NoFeedback == [got |-> <<>>, calls |-> <<>>]

\* the calls made on a Timer
NoTrials == [kind |-> "none", n |-> 0, items |-> <<>>, min_time |-> 0]
NoTimerCall == [name |-> "none", trials |-> NoTrials, iterations |-> None,
                callback |-> "none", seconds_per_increment |-> 0]
Callbacks == {"none", "raw"}
IterationCounts == 0..MaxIterations
TrialLists == UNION {[1..n -> IterationCounts] : n \in 0..MaxTrials}
TimerCalls ==
    {[NoTimerCall EXCEPT !.name = "timeit", !.iterations = PyInt(m),
                         !.callback = cb, !.seconds_per_increment = spi] :
        m \in IterationCounts, cb \in Callbacks, spi \in 1..MaxSpi}
    \cup {[NoTimerCall EXCEPT !.name = "repeat",
                              !.trials = [NoTrials EXCEPT !.kind = "int", !.n = n],
                              !.iterations = m,
                              !.callback = cb, !.seconds_per_increment = spi] :
        n \in 0..MaxTrials, m \in Ints(IterationCounts) \cup {None, Float(3)},
        cb \in Callbacks, spi \in 1..MaxSpi}
    \cup {[NoTimerCall EXCEPT !.name = "repeat",
                              !.trials = [NoTrials EXCEPT !.kind = "list", !.items = l],
                              !.callback = cb, !.seconds_per_increment = spi] :
        l \in TrialLists, cb \in Callbacks, spi \in 1..MaxSpi}
    \cup {[NoTimerCall EXCEPT !.name = "repeat",
                              !.trials = [NoTrials EXCEPT !.kind = "autorange",
                                                          !.min_time = t],
                              !.callback = cb, !.seconds_per_increment = spi] :
        t \in 0..MaxMinTime, cb \in Callbacks, spi \in 1..MaxSpi}
    \cup {[NoTimerCall EXCEPT !.name = "repeat",
                              !.trials = [NoTrials EXCEPT !.kind = "autorange",
                                                          !.min_time = AutoMinTime],
                              !.callback = "raw", !.seconds_per_increment = spi] :
        spi \in {Tick1024th, TickSecond}}

\* ---- peptides.random: Seeded ----
\* random.Random(seed) is a deterministic generator: the seed fixes the words
\* it produces (stream), and its state (getstate, setstate) is the number of
\* words produced so far.
Words == 0..1
Streams == [1..MaxDraws -> Words]

\* Random.getrandbits(count) for count > 0
getrandbits(words, state) == [val |-> words[state + 1], state |-> state + 1]

\* Seeded.__init__(seed): peptides/random/core.py calls
\* super().__init__(getrandbits); peptides/random/__init__.py calls
\* super().__init__(self, getrandbits), one argument too many
NoSeeded == [module |-> "none", state |-> 0]
Seeded_init(module) ==
    IF module = "random" THEN Raise("TypeError", [NoSeeded EXCEPT !.module = module])
    ELSE Return([module |-> module, state |-> 0])

\* BitsGenerator.bits(count)
BitsGenerator_bits(words, state, count) ==
    IF count = 0 THEN [val |-> 0, state |-> state]
    ELSE getrandbits(words, state)

RECURSIVE bit_length(_)
bit_length(x) == IF x = 0 THEN 0 ELSE 1 + bit_length(x \div 2)

\* The loop of BitsGenerator.decimal; ok is FALSE when it asks for more than
\* MaxDraws words.
RECURSIVE decimal_loop(_, _, _)
decimal_loop(words, state, exponent) ==
    IF state >= Len(words) THEN [ok |-> FALSE, exponent |-> 0, state |-> state]
    ELSE LET x == BitsGenerator_bits(words, state, 32)
             e == exponent + bit_length(x.val) - 32
         IN  IF x.val # 0 THEN [ok |-> TRUE, exponent |-> e, state |-> x.state]
             ELSE decimal_loop(words, x.state, e)

\* BitsGenerator.decimal(): ldexp(mantissa, exponent), kept as the pair
BitsGenerator_decimal(words, state) ==
    IF state >= Len(words) THEN [ok |-> FALSE, val |-> 0, exponent |-> 0, state |-> state]
    ELSE LET m == BitsGenerator_bits(words, state, 52)
             l == decimal_loop(words, m.state, -53)
         IN  [ok |-> l.ok, val |-> m.val, exponent |-> l.exponent, state |-> l.state]

\* _revert_state.__exit__ restoring the state only when no exception left
\* the block
revert_state_exit_noexc(state, frame, exc_type) ==
    IF exc_type = "normal" THEN frame._state ELSE state

\* _revert_state.__exit__(exc_type, exc_value, traceback): the state that
\* `self._instance.state = self._state` sets
revert_state_exit(state, frame, exc_type) == frame._state

\* the block left last (how: "normal" or the exception), the state the
\* generator had on entering it, the draws made inside it, and whether it
\* held no other block
NoLast == [how |-> "none", entry |-> 0, drew |-> <<>>, plain |-> TRUE]
BitCounts == {0, 1}

\* no Seeded generator is made
RandomIdle ==
    /\ rpc = "idle"
    /\ rexc = "none"
    /\ seeded = NoSeeded
    /\ stream = <<>>
    /\ blocks = <<>>
    /\ last = NoLast
    /\ after = <<>>

\* ---- the state machine ----
\* the range part of the state, with the given argument lists to choose from
RangeInit(lists, at) ==
    /\ args \in lists
    /\ pc = at
    /\ exc = "none"
    /\ r = NoRange
    /\ lenres = NoResult
    /\ it = NoIter
    /\ out = <<>>
    /\ probe = None
    /\ cres = NoContains
    /\ prev = NoRange
    /\ op = NoOp
    /\ call = NoCall
    /\ it2 = NoIter
    /\ out2 = <<>>
    /\ depth = 0

\* no Timer call is made
TimeitIdle ==
    /\ tcall = NoTimerCall
    /\ tpc = "idle"
    /\ texc = "none"
    /\ fake = FakeTimer
    /\ src = NoSource
    /\ fb_value = 0
    /\ inner = NoInner
    /\ result = NoTiming
    /\ results = <<>>
    /\ fb = NoFeedback

Init == RangeInit(ArgLists, "call") /\ TimeitIdle /\ RandomIdle

\* range(*args)
Construct ==
    /\ pc = "call"
    /\ LET res == range(args)
       IN  /\ exc' = res.exc
           /\ r' = res.val
           /\ pc' = IF res.exc = "none" THEN "built" ELSE "raised"
    /\ UNCHANGED <<args, lenres, it, out, probe, cres, prev, op, call>>
    /\ UNCHANGED ext

\* len(r)
CallLen ==
    /\ pc = "built"
    /\ LET res == Range_len(r)
       IN  lenres' = [called |-> TRUE, exc |-> res.exc, val |-> res.val]
    /\ UNCHANGED <<args, pc, exc, r, it, out, probe, cres, prev, op, call>>
    /\ UNCHANGED ext

\* iter(r): a fresh generator
CallIter ==
    /\ pc = "built"
    /\ it' = [at |-> "start", offset |-> 0, idx |-> 0]
    /\ out' = <<>>
    /\ UNCHANGED <<args, pc, exc, r, lenres, probe, cres, prev, op, call>>
    /\ UNCHANGED ext

\* next() on the generator
CallNext ==
    /\ pc = "built"
    /\ it.at \notin {"none", "done"}
    /\ Len(out) < MaxIter
    /\ LET n == Range_iter(r, it)
       IN  /\ it' = n.g
           /\ out' = IF n.done THEN out ELSE Append(out, n.val)
    /\ UNCHANGED <<args, pc, exc, r, lenres, probe, cres, prev, op, call>>
    /\ UNCHANGED ext

\* value in r
CallContains ==
    /\ pc = "built"
    /\ \E p \in Probes :
        LET res == Range_contains(r, p)
        IN  /\ probe' = p
            /\ cres' = [called |-> TRUE, exc |-> res.exc, val |-> res.val]
    /\ UNCHANGED <<args, pc, exc, r, lenres, it, out, prev, op, call>>
    /\ UNCHANGED ext

Next == Construct \/ CallLen \/ CallIter \/ CallNext \/ CallContains

Spec == Init /\ [][Next]_vars

\* ---- arithmetic, indexing and text of a built range ----
\* The operators return a new range; r becomes that range, prev the operand.
Derive(name, n, res) ==
    /\ prev' = r
    /\ r' = res.val
    /\ exc' = res.exc
    /\ op' = [name |-> name, n |-> n]
    /\ pc' = IF res.exc = "none" THEN "derived" ELSE "raised"
    /\ call' = NoCall
    /\ UNCHANGED <<args, lenres, it, out, probe, cres>>
    /\ UNCHANGED ext

\* r + n
CallAdd == pc = "built" /\ \E n \in Shifts : Derive("add", n, Range_add(r, n))

\* r - n
CallSub == pc = "built" /\ \E n \in Shifts : Derive("sub", n, Range_sub(r, n))

\* r * k
CallMul == pc = "built" /\ \E k \in Factors : Derive("mul", k, Range_mul(r, k))

\* -r
CallNeg == pc = "built" /\ Derive("neg", -1, Range_neg(r))

\* call records the outcome of one call made on the current range r; the
\* calls below leave r alone, so each is made from the state where none has
\* been recorded yet (every outcome is reached either way).

\* r[i]
CallGetitem ==
    /\ pc \in {"built", "derived"}
    /\ call = NoCall
    /\ \E i \in Indices :
        LET res == Range_getitem(r, i)
        IN  call' = [NoCall EXCEPT !.name = "getitem", !.arg = i,
                                   !.exc = res.exc, !.ival = res.val]
    /\ UNCHANGED <<args, pc, exc, r, lenres, it, out, probe, cres, prev, op>>
    /\ UNCHANGED ext

\* str(r), repr(r)
CallStr ==
    /\ pc \in {"built", "derived"}
    /\ call = NoCall
    /\ \/ call' = [NoCall EXCEPT !.name = "str", !.sval = Range_str(r)]
       \/ call' = [NoCall EXCEPT !.name = "repr", !.sval = Range_repr(r)]
    /\ UNCHANGED <<args, pc, exc, r, lenres, it, out, probe, cres, prev, op>>
    /\ UNCHANGED ext

\* pattern of r combined with another ascending pattern
CallCombineAnd ==
    /\ pc \in {"built", "derived"}
    /\ call = NoCall
    /\ r.steps[1] > 0
    /\ \E q \in AscendingPatterns :
        call' = [NoCall EXCEPT !.name = "combine_and", !.q = q,
                               !.sval = combine_and(r.steps, q)]
    /\ UNCHANGED <<args, pc, exc, r, lenres, it, out, probe, cres, prev, op>>
    /\ UNCHANGED ext

NextAlg == Construct \/ CallAdd \/ CallSub \/ CallMul \/ CallNeg
           \/ CallGetitem \/ CallStr \/ CallCombineAnd

SpecAlg == Init /\ [][NextAlg]_vars

\* ---- two iterators over one range ----
\* iter(r) once more: a second generator, with a frame of its own
CallIter2 ==
    /\ pc = "built"
    /\ it2' = [at |-> "start", offset |-> 0, idx |-> 0]
    /\ out2' = <<>>
    /\ UNCHANGED <<args, pc, exc, r, lenres, it, out, probe, cres, prev, op, call>>
    /\ UNCHANGED <<depth, utilVars>>

\* next() on the second generator
CallNext2 ==
    /\ pc = "built"
    /\ it2.at \notin {"none", "done"}
    /\ Len(out2) < MaxIter
    /\ LET n == Range_iter(r, it2)
       IN  /\ it2' = n.g
           /\ out2' = IF n.done THEN out2 ELSE Append(out2, n.val)
    /\ UNCHANGED <<args, pc, exc, r, lenres, it, out, probe, cres, prev, op, call>>
    /\ UNCHANGED <<depth, utilVars>>

NextIter2 == Construct \/ CallIter \/ CallNext \/ CallIter2 \/ CallNext2

SpecIter2 == Init /\ [][NextIter2]_vars

\* ---- chains of arithmetic ----
\* The operand is dropped: r becomes the result of the operator.
Chain(res) ==
    /\ pc \in {"built", "chained"}
    /\ depth < MaxDepth
    /\ r' = res.val
    /\ exc' = res.exc
    /\ pc' = IF res.exc = "none" THEN "chained" ELSE "raised"
    /\ depth' = depth + 1
    /\ UNCHANGED <<args, lenres, it, out, probe, cres, prev, op, call, it2, out2>>
    /\ UNCHANGED utilVars

ChainAdd == \E n \in Shifts : Chain(Range_add(r, n))

ChainSub == \E n \in Shifts : Chain(Range_sub(r, n))

ChainMul == \E k \in Factors : Chain(Range_mul(r, k))

ChainNeg == Chain(Range_neg(r))

NextChain == Construct \/ ChainAdd \/ ChainSub \/ ChainMul \/ ChainNeg

SpecChain == Init /\ [][NextChain]_vars

\* ---- Timer.timeit and Timer.repeat ----
InitTimeit ==
    /\ RangeInit({<<>>}, "idle")
    /\ RandomIdle
    /\ tcall \in TimerCalls
    /\ tpc = "call"
    /\ texc = "none"
    /\ fake = FakeTimer
    /\ src = NoSource
    /\ fb_value = 0
    /\ inner = NoInner
    /\ result = NoTiming
    /\ results = <<>>
    /\ fb = NoFeedback

\* Timer.timeit(iterations, callback=...) up to the call of inner, or
\* Timer.repeat(trials, iterations=..., callback=...) up to the call of list
TimerCall ==
    /\ tpc = "call"
    /\ IF tcall.name = "timeit"
       THEN /\ fb_value' = tcall.iterations.v
            /\ inner' = Timer_timeit_enter(tcall.iterations.v)
            /\ tpc' = "setup"
            /\ UNCHANGED <<src, texc>>
       ELSE IF tcall.trials.kind = "int" /\ tcall.iterations = None
       THEN tpc' = "raised" /\ texc' = "ValueError" /\ UNCHANGED <<src, fb_value, inner>>
       ELSE IF tcall.trials.kind = "int" /\ ~isinstance_int(tcall.iterations)
       THEN tpc' = "raised" /\ texc' = "TypeError" /\ UNCHANGED <<src, fb_value, inner>>
       ELSE /\ src' = IF tcall.trials.kind = "int"
                      THEN itertools_repeat(tcall.iterations.v, tcall.trials.n)
                      ELSE IF tcall.trials.kind = "list"
                      THEN iter_list(tcall.trials.items)
                      ELSE autorange(tcall.trials.min_time)
            /\ tpc' = "feedback"
            /\ UNCHANGED <<texc, fb_value, inner>>
    /\ UNCHANGED <<tcall, fake, result, results, fb>>
    /\ UNCHANGED <<rangeVars, randomVars>>

\* feedback up to its loop: value = next(original_generator)
FeedbackStart ==
    /\ tpc = "feedback"
    /\ LET o == Source_next(src)
       IN  /\ src' = o.src
           /\ IF o.exc = "StopIteration"
              THEN tpc' = "done" /\ UNCHANGED <<fb_value, fb, texc>>
              ELSE IF o.exc # "none"
              THEN tpc' = "raised" /\ texc' = o.exc /\ UNCHANGED <<fb_value, fb>>
              ELSE /\ fb_value' = o.val
                   /\ fb' = [fb EXCEPT !.got = Append(@,
                                [how |-> "next", sent |-> NoTiming, val |-> o.val])]
                   /\ tpc' = "func"
                   /\ UNCHANGED texc
    /\ UNCHANGED <<tcall, fake, inner, result, results>>
    /\ UNCHANGED <<rangeVars, randomVars>>

\* result = func(value): the lambda of Timer.repeat calls self.timeit(value)
FuncCall ==
    /\ tpc = "func"
    /\ fb' = [fb EXCEPT !.calls = Append(@, fb_value)]
    /\ inner' = Timer_timeit_enter(fb_value)
    /\ tpc' = "setup"
    /\ UNCHANGED <<tcall, texc, fake, src, fb_value, result, results>>
    /\ UNCHANGED <<rangeVars, randomVars>>

\* inner: {setup}
InnerSetup ==
    /\ tpc = "setup"
    /\ fake' = [fake EXCEPT !.setup_calls = @ + 1]
    /\ inner' = [inner EXCEPT !.setups = @ + 1]
    /\ tpc' = "t0"
    /\ UNCHANGED <<tcall, texc, src, fb_value, result, results, fb>>
    /\ UNCHANGED <<rangeVars, randomVars>>

\* inner: _t0 = _timer()
InnerT0 ==
    /\ tpc = "t0"
    /\ inner' = [inner EXCEPT !.t0 = FakeTimer_call(fake, tcall.seconds_per_increment),
                              !.reads = @ + 1]
    /\ tpc' = "loop"
    /\ UNCHANGED <<tcall, texc, fake, src, fb_value, result, results, fb>>
    /\ UNCHANGED <<rangeVars, randomVars>>

\* inner: one round of `for _i in _it: {stmt}`
InnerStmt ==
    /\ tpc = "loop"
    /\ inner.left > 0
    /\ fake' = [fake EXCEPT !.count = @ + 1]
    /\ inner' = [inner EXCEPT !.left = @ - 1, !.stmts = @ + 1]
    /\ UNCHANGED <<tcall, tpc, texc, src, fb_value, result, results, fb>>
    /\ UNCHANGED <<rangeVars, randomVars>>

\* inner: _it is exhausted; _t1 = _timer()
InnerT1 ==
    /\ tpc = "loop"
    /\ inner.left = 0
    /\ inner' = [inner EXCEPT !.t1 = FakeTimer_call(fake, tcall.seconds_per_increment),
                              !.reads = @ + 1]
    /\ tpc' = "return"
    /\ UNCHANGED <<tcall, texc, fake, src, fb_value, result, results, fb>>
    /\ UNCHANGED <<rangeVars, randomVars>>

\* inner returns _t1 - _t0 and Timer.timeit applies the callback
TimeitReturn ==
    /\ tpc = "return"
    /\ LET res == Timer_timeit_callback(inner.t1 - inner.t0, fb_value, tcall.callback)
       IN  IF res.exc # "none"
           THEN tpc' = "raised" /\ texc' = res.exc /\ UNCHANGED result
           ELSE /\ result' = res.val
                /\ tpc' = IF tcall.name = "timeit" THEN "done" ELSE "yield"
                /\ UNCHANGED texc
    /\ UNCHANGED <<tcall, fake, src, fb_value, inner, results, fb>>
    /\ UNCHANGED <<rangeVars, randomVars>>

\* feedback: `yield result`, which list() appends
FeedbackYield ==
    /\ tpc = "yield"
    /\ results' = Append(results, result)
    /\ tpc' = "resume"
    /\ UNCHANGED <<tcall, texc, fake, src, fb_value, inner, result, fb>>
    /\ UNCHANGED <<rangeVars, randomVars>>

\* feedback resumed by list(): value = get_next(result)
FeedbackResume ==
    /\ tpc = "resume"
    /\ LET g == get_next(src, result)
       IN  /\ src' = g.o.src
           /\ IF g.o.exc = "StopIteration"
              THEN tpc' = "done" /\ UNCHANGED <<fb_value, fb, texc>>
              ELSE IF g.o.exc # "none"
              THEN tpc' = "raised" /\ texc' = g.o.exc /\ UNCHANGED <<fb_value, fb>>
              ELSE /\ fb_value' = g.o.val
                   /\ fb' = [fb EXCEPT !.got = Append(@,
                                [how |-> g.how,
                                 sent |-> IF g.how = "send" THEN result ELSE NoTiming,
                                 val |-> g.o.val])]
                   /\ tpc' = "func"
                   /\ UNCHANGED texc
    /\ UNCHANGED <<tcall, fake, inner, result, results>>
    /\ UNCHANGED <<rangeVars, randomVars>>

NextTimeit == TimerCall \/ FeedbackStart \/ FuncCall \/ InnerSetup \/ InnerT0
              \/ InnerStmt \/ InnerT1 \/ TimeitReturn \/ FeedbackYield
              \/ FeedbackResume

SpecTimeit == InitTimeit /\ [][NextTimeit]_vars

\* ---- Seeded and revert_state ----
InitRandom ==
    /\ RangeInit({<<>>}, "idle")
    /\ TimeitIdle
    /\ rpc = "call"
    /\ rexc = "none"
    /\ seeded \in {[NoSeeded EXCEPT !.module = m] : m \in {"core", "random"}}
    /\ stream \in Streams
    /\ blocks = <<>>
    /\ last = NoLast
    /\ after = <<>>

\* rng = Seeded(seed)
SeededConstruct ==
    /\ rpc = "call"
    /\ LET res == Seeded_init(seeded.module)
       IN  /\ seeded' = res.val
           /\ rexc' = res.exc
           /\ rpc' = IF res.exc = "none" THEN "built" ELSE "raised"
    /\ UNCHANGED <<stream, blocks, last, after>>
    /\ UNCHANGED <<rangeVars, timeitVars>>

\* the draw d repeats the call made at the same place in the block left last
Repeats(d) ==
    /\ last.how # "none" /\ last.plain /\ Len(after) < Len(last.drew)
    /\ LET e == last.drew[Len(after) + 1]
       IN  e.op = d.op /\ e.count = d.count

\* A draw is noted in the innermost open block while that block has held no
\* other block, and after the block left last while the calls made inside
\* it are being repeated.
Drew(d) ==
    /\ IF Repeats(d) THEN after' = Append(after, d) /\ last' = last
       ELSE IF Len(after) = Len(last.drew) THEN UNCHANGED <<after, last>>
       ELSE after' = <<>> /\ last' = NoLast
    /\ IF blocks # <<>> /\ blocks[Len(blocks)].plain
       THEN /\ Len(blocks[Len(blocks)].drew) < MaxDraws
            /\ blocks' = [blocks EXCEPT ![Len(blocks)].drew = Append(@, d)]
       ELSE blocks' = blocks

\* rng.bits(count)
BitsCalled(count) ==
    /\ rpc = "built"
    /\ count = 0 \/ seeded.state < MaxDraws
    /\ LET b == BitsGenerator_bits(stream, seeded.state, count)
       IN  /\ seeded' = [seeded EXCEPT !.state = b.state]
           /\ Drew([op |-> "bits", count |-> count, val |-> b.val, exponent |-> 0])
    /\ UNCHANGED <<rpc, rexc, stream>>
    /\ UNCHANGED <<rangeVars, timeitVars>>

CallBits == \E count \in BitCounts : BitsCalled(count)

\* rng.decimal()
CallDecimal ==
    /\ rpc = "built"
    /\ LET d == BitsGenerator_decimal(stream, seeded.state)
       IN  /\ d.ok
           /\ seeded' = [seeded EXCEPT !.state = d.state]
           /\ Drew([op |-> "decimal", count |-> 0, val |-> d.val, exponent |-> d.exponent])
    /\ UNCHANGED <<rpc, rexc, stream>>
    /\ UNCHANGED <<rangeVars, timeitVars>>

\* `with rng.revert_state():` -- _revert_state.__enter__
EnterRevert ==
    /\ rpc = "built"
    /\ Len(blocks) < MaxNest
    /\ blocks' = Append([i \in 1..Len(blocks) |->
                             [blocks[i] EXCEPT !.plain = FALSE, !.drew = <<>>]],
                        [_state |-> seeded.state, drew |-> <<>>, plain |-> TRUE])
    /\ last' = NoLast
    /\ after' = <<>>
    /\ UNCHANGED <<rpc, rexc, seeded, stream>>
    /\ UNCHANGED <<rangeVars, timeitVars>>

\* the innermost block is left: _revert_state.__exit__
Leave(exc_type) ==
    /\ rpc = "built"
    /\ blocks # <<>>
    /\ LET frame == blocks[Len(blocks)]
       IN  /\ seeded' = [seeded EXCEPT
                            !.state = revert_state_exit(seeded.state, frame, exc_type)]
           /\ last' = [how |-> exc_type, entry |-> frame._state,
                       drew |-> frame.drew, plain |-> frame.plain]
    /\ blocks' = SubSeq(blocks, 1, Len(blocks) - 1)
    /\ after' = <<>>
    /\ UNCHANGED <<rpc, rexc, stream>>
    /\ UNCHANGED <<rangeVars, timeitVars>>

\* the end of the block is reached
ExitRevert == Leave("normal")

\* an exception raised in the block leaves it, and is caught outside it
ExitRevertRaised == Leave("KeyError")

NextRandom == SeededConstruct \/ CallBits \/ CallDecimal \/ EnterRevert
              \/ ExitRevert \/ ExitRevertRaised

SpecRandom == InitRandom /\ [][NextRandom]_vars

\* ======================= properties =======================

\* The built-in range(start, stop, step): fixed-stride counting from start
\* towards stop, stop exclusive.
RECURSIVE builtin_range(_, _, _)
builtin_range(start, stop, step) ==
    IF (step > 0 /\ start >= stop) \/ (step < 0 /\ start <= stop) THEN <<>>
    ELSE <<start>> \o builtin_range(start + step, stop, step)

IsPrefix(s, t) == Len(s) <= Len(t) /\ \A i \in 1..Len(s) : s[i] = t[i]

\* range(start, stop, step) was built from three integers
ThreeInts == pc = "built" /\ Len(args) = 3 /\ args[2].t = "int"

\* C1: iterating range(start, stop, step) for integers start, stop and a
\* non-zero integer step produces the list of the built-in range: the elements
\* yielded so far are a prefix of it, and the whole of it once the iterator is
\* exhausted (descending and sign-mismatched cases included).
C1_IterEqualsBuiltin ==
    ThreeInts =>
        LET b == builtin_range(args[1].v, args[2].v, args[3].v)
        IN  /\ IsPrefix(out, b)
            /\ it.at = "done" => out = b

C1_Witness ==
    /\ ThreeInts /\ it.at = "done"
    /\ args[3].v < -1 /\ Len(out) >= 2

\* C2 (as claimed): every value produced by iterating a range is a member of
\* that range.
C2_IteratedAreMembers ==
    (cres.called /\ probe.t = "int" /\ \E i \in 1..Len(out) : out[i] = probe.v)
        => (cres.exc = "none" /\ cres.val = TRUE)

\* (value - start) * direction lies outside [0, |start - stop|)
OutsideHalfOpen(rng, value) ==
    LET direction == IF Lt(rng.stop, PyInt(rng.start)) THEN -1 ELSE 1
        distance == (value - rng.start) * direction
    IN  ~(0 <= distance /\ Lt(PyInt(distance), Abs(Sub(rng.start, rng.stop))))

\* C3 (as claimed): contains(value) is false for every integer whose distance
\* lies outside [0, |start - stop|); so stop is never a member and a range with
\* start == stop has no member.
C3_OutsideNotMember ==
    (cres.called /\ probe.t = "int" /\ OutsideHalfOpen(r, probe.v))
        => (cres.exc = "none" /\ cres.val = FALSE)

\* C4: a range whose start equals its stop has length 0 and yields no
\* element: its iterator is exhausted by the first next().
C4_EmptyRange ==
    (pc = "built" /\ r.stop = PyInt(r.start)) =>
        /\ lenres.called => (lenres.exc = "none" /\ lenres.val = 0)
        /\ out = <<>>
        /\ it.at \in {"none", "start", "done"}

C4_Witness ==
    /\ pc = "built" /\ r.stop = PyInt(r.start)
    /\ Len(args) > 3 /\ args[2] # args[1]
    /\ lenres.called /\ it.at = "done"

\* C5: len(range(start, stop, step)) for integers start, stop and non-zero
\* step is the length of the built-in range; for step 1 and stop >= start it
\* is stop - start.
C5_LenEqualsBuiltin ==
    (ThreeInts /\ lenres.called) =>
        /\ lenres.exc = "none"
        /\ lenres.val = Len(builtin_range(args[1].v, args[2].v, args[3].v))
        /\ (args[3].v = 1 /\ args[2].v >= args[1].v)
               => lenres.val = args[2].v - args[1].v

C5_Witness ==
    /\ ThreeInts /\ lenres.called
    /\ args[3].v < -1 /\ lenres.val >= 2

\* C6: len() raises ValueError exactly when the stop of the range is
\* infinite, and returns a non-negative integer when it is finite.
C6_LenRaisesIffInfinite ==
    lenres.called =>
        /\ lenres.exc \in {"none", "ValueError"}
        /\ lenres.exc = "ValueError" <=> r.stop.t = "inf"
        /\ r.stop.t = "int" => lenres.val >= 0

C6_Witness ==
    /\ lenres.called /\ lenres.exc = "ValueError"
    /\ r.stop = NegInf /\ Len(r.steps) > 1

\* start is not an integer, or stop is neither an integer nor a float
\* infinity, or some step is not an integer
IllTyped(a) ==
    \/ Len(a) >= 2 /\ a[1].t # "int"
    \/ Len(a) >= 1 /\ arg_stop(a).t \notin {"int", "inf"}
    \/ \E i \in 3..Len(a) : a[i].t # "int"

\* C7: the constructor raises TypeError and builds no object whenever an
\* argument is ill-typed.
C7_TypeError ==
    (pc # "call" /\ IllTyped(args)) =>
        (pc = "raised" /\ exc = "TypeError" /\ r = NoRange)

C7_Witness ==
    /\ pc = "raised" /\ exc = "TypeError"
    /\ Len(args) = 3 /\ args[1].t = "int" /\ args[2] = Float(7) /\ args[3].t = "int"

\* all positive and strictly ascending, or all negative and strictly descending
ValidStepSequence(s) ==
    \/ /\ \A i \in 1..Len(s) : s[i].v > 0
       /\ \A i \in 1..(Len(s) - 1) : s[i].v < s[i + 1].v
    \/ /\ \A i \in 1..Len(s) : s[i].v < 0
       /\ \A i \in 1..(Len(s) - 1) : s[i].v > s[i + 1].v

\* C8: for well-typed arguments the constructor raises ValueError when the
\* step sequence contains a zero, mixes signs or is not strictly monotonic
\* away from zero, and accepts every other step sequence.
C8_StepSequence ==
    (pc # "call" /\ Len(args) > 2 /\ ~IllTyped(args)) =>
        IF ValidStepSequence(arg_steps(args))
        THEN pc = "built" /\ exc = "none"
        ELSE pc = "raised" /\ exc = "ValueError" /\ r = NoRange

C8_Witness ==
    /\ pc = "raised" /\ exc = "ValueError"
    /\ Len(args) = 4 /\ ~IllTyped(args)
    /\ args[3].v > 0 /\ args[4].v < 0

\* C9 (as claimed): building a range whose start is +inf fails with
\* ValueError.
C9_InfStartValueError ==
    (pc # "call" /\ Len(args) >= 2 /\ args[1] = inf) =>
        (pc = "raised" /\ exc = "ValueError")

\* C9 (amended): building a range whose start is +inf fails with TypeError.
C9_InfStartTypeError ==
    (pc # "call" /\ Len(args) >= 2 /\ args[1] = inf) =>
        (pc = "raised" /\ exc = "TypeError" /\ r = NoRange)

C9_Witness ==
    /\ pc = "raised" /\ Len(args) = 3 /\ args[1] = inf
    /\ args[2] = PyInt(1) /\ args[3] = PyInt(1)

\* an integer, or a float with an integral value
ExactInteger(p) == p.t = "int" \/ (p.t = "float" /\ p.v % 2 = 0)

\* C10 (as claimed): `value in range` never raises, and is false for every
\* value that is not exactly an integer.
C10_ContainsNeverRaises ==
    cres.called =>
        /\ cres.exc = "none"
        /\ ~ExactInteger(probe) => cres.val = FALSE

\* list(islice(r, n)): the first n elements produced by iterating rng
RECURSIVE RangeListFrom(_, _, _)
RangeListFrom(rng, g, n) ==
    IF n = 0 THEN <<>>
    ELSE LET x == Range_iter(rng, g)
         IN  IF x.done THEN <<>>
             ELSE <<x.val>> \o RangeListFrom(rng, x.g, n - 1)
RangeList(rng, n) == RangeListFrom(rng, [at |-> "start", offset |-> 0, idx |-> 0], n)

\* r[i] was evaluated on a range with a finite stop
GetitemFinite == call.name = "getitem" /\ r.stop.t = "int"

\* C11 (as claimed): for a finite range r and 0 <= i < len(r), r[i] is the
\* i-th element (0-based) produced by iterating r.
C11_GetitemIsIthElement ==
    (GetitemFinite /\ 0 <= call.arg /\ call.arg < Range_len(r).val) =>
        LET l == RangeList(r, call.arg + 1)
        IN  /\ call.exc = "none"
            /\ Len(l) = call.arg + 1
            /\ call.ival = l[call.arg + 1]

\* C12 (as claimed): for a finite range r, r[i] raises IndexError for every
\* integer i outside [0, len(r)).
C12_GetitemIndexError ==
    (GetitemFinite /\ (call.arg < 0 \/ call.arg >= Range_len(r).val)) =>
        call.exc = "IndexError"

\* C13: r + n has the steps of r, start and stop both increased by n (an
\* infinite stop stays infinite), and (r + n) - n == r.
C13_ShiftRoundTrip ==
    (pc # "call" /\ op.name = "add") =>
        /\ pc = "derived"
        /\ r.steps = prev.steps
        /\ r.start = prev.start + op.n
        /\ r.stop = (IF prev.stop.t = "int" THEN PyInt(prev.stop.v + op.n)
                     ELSE prev.stop)
        /\ Range_sub(r, op.n).exc = "none"
        /\ Range_eq(Range_sub(r, op.n).val, prev)

C13_Witness ==
    /\ pc = "derived" /\ op.name = "add" /\ op.n # 0
    /\ prev.stop = NegInf /\ Len(prev.steps) > 1

\* C14: r + 0 == r, r * 1 == r, (-r) * -1 == r and -(-r) == r.
C14_IdentityLaws ==
    /\ (op.name = "add" /\ op.n = 0) => (pc = "derived" /\ Range_eq(r, prev))
    /\ (op.name = "mul" /\ op.n = 1) => (pc = "derived" /\ Range_eq(r, prev))
    /\ op.name = "neg" =>
        /\ pc = "derived"
        /\ Range_mul(r, -1).exc = "none" /\ Range_eq(Range_mul(r, -1).val, prev)
        /\ Range_neg(r).exc = "none" /\ Range_eq(Range_neg(r).val, prev)

C14_Witness ==
    /\ pc = "derived" /\ op.name = "mul" /\ op.n = 1
    /\ prev.steps[1] < 0 /\ Len(prev.steps) > 1 /\ prev.stop # PyInt(prev.start)

\* C15 (as claimed): -r has the membership set of r: v in (-r) iff v in r.
C15_NegSameMembers ==
    op.name = "neg" =>
        \A v \in -(MaxVal + 1)..(MaxVal + 1) :
            Range_contains(r, PyInt(v)).val = Range_contains(prev, PyInt(v)).val

\* C15 (amended): -r has the negated start, stop and steps of r, and
\* iterating it produces the negations of the elements of r, in order.
C15_NegNegatesElements ==
    op.name = "neg" =>
        /\ pc = "derived"
        /\ r.start = -prev.start
        /\ r.stop = MulNum(prev.stop, -1)
        /\ r.steps = [i \in 1..Len(prev.steps) |-> -prev.steps[i]]
        /\ LET l == RangeList(prev, MaxIter)
           IN  RangeList(r, MaxIter) = [i \in 1..Len(l) |-> -l[i]]

C15_Witness ==
    /\ pc = "derived" /\ op.name = "neg"
    /\ Len(prev.steps) > 1 /\ Len(RangeList(r, MaxIter)) >= 3

\* C16: str(r) is "range()" when start == stop; otherwise "range(stop)" when
\* start == 0 and steps == (1,), "range(start, stop)" when steps == (1,) and
\* start != 0, and "range(start, stop, step1, ...)" for any other steps;
\* repr(r) is the same text.
C16_StringForm ==
    call.name \in {"str", "repr"} =>
        LET empty == r.stop = PyInt(r.start)
            unit == r.steps = <<1>>
        IN  /\ empty => call.sval = <<>>
            /\ (~empty /\ unit /\ r.start = 0) => call.sval = <<r.stop>>
            /\ (~empty /\ unit /\ r.start # 0)
                   => call.sval = <<PyInt(r.start), r.stop>>
            /\ (~empty /\ ~unit) =>
                   /\ Len(call.sval) = 2 + Len(r.steps)
                   /\ call.sval[1] = PyInt(r.start) /\ call.sval[2] = r.stop
                   /\ \A i \in 1..Len(r.steps) :
                          call.sval[2 + i] = PyInt(r.steps[i])

C16_Witness ==
    /\ call.name = "repr" /\ r.stop = PyInt(r.start)
    /\ r.steps # <<1>> /\ call.sval = <<>>

\* The offsets d, ascending, with d < |start - stop| (d < bound when the stop
\* is infinite) and d mod |sk| in {0, |s1|, ..., |s(k-1)|}
IncludedOffsets(rng, bound) ==
    LET k == Len(rng.steps)
        period == abs(rng.steps[k])
        limit == Abs(Sub(rng.start, rng.stop))
        D == IF limit.t = "int" THEN limit.v ELSE bound
        Hit(d) == d % period = 0
                  \/ \E j \in 1..(k - 1) : d % period = abs(rng.steps[j])
    IN  SelectSeq([i \in 1..D |-> i - 1], Hit)

\* C17: a range with steps (s1, ..., sk) iterates, strictly monotonically away
\* from start, exactly the values start + direction * d for the included
\* offsets d; with steps (1, 2, ..., k) it produces start, start + 1, ...,
\* stop - 1, as range(0, 10, 1, 2, 3), range(0, 10, 1), range(0, 10) and
\* range(10) do.
C17_MultiStepIteration ==
    pc = "built" =>
        LET k == Len(r.steps)
            direction == IF r.steps[1] < 0 THEN -1 ELSE 1
            offs == IncludedOffsets(r, (MaxIter + 1) * abs(r.steps[k]))
            expected == [i \in 1..Len(offs) |-> r.start + direction * offs[i]]
        IN  /\ IsPrefix(out, expected)
            /\ it.at = "done" => out = expected
            /\ \A j \in 1..(Len(out) - 1) : direction * (out[j + 1] - out[j]) > 0
            /\ (it.at = "done" /\ \A i \in 1..k : r.steps[i] = i) =>
                   out = [j \in 1..(r.stop.v - r.start) |-> r.start + j - 1]

C17_Witness ==
    /\ pc = "built" /\ it.at = "done"
    /\ Len(r.steps) > 1 /\ r.steps[1] < 0 /\ Len(out) >= 3

\* C18 (as claimed): the constructor stores a finite stop as one step past the
\* last value of the range (start for an empty range), so two ranges built
\* with the same start and steps and holding the same elements have the same
\* stored stop and compare equal.
C18_StopNormalised ==
    (pc = "built" /\ Len(args) >= 2 /\ r.stop.t = "int") =>
        LET l == RangeList(r, MaxIter)
            direction == IF r.steps[1] < 0 THEN -1 ELSE 1
        IN  /\ r.stop.v = (IF l = <<>> THEN r.start ELSE l[Len(l)] + direction)
            /\ \A b \in Ints(-MaxVal..MaxVal) :
                   LET other == range([args EXCEPT ![2] = b])
                   IN  (other.exc = "none" /\ RangeList(other.val, MaxIter) = l)
                           => (other.val.stop = r.stop /\ Range_eq(other.val, r))

\* range(start, stop, mask) was called with well-typed start and stop and the
\* string mask as its only step argument
CalledWithMask(mask) ==
    /\ pc # "call" /\ Len(args) = 3
    /\ args[1].t = "int" /\ args[2].t \in {"int", "inf"} /\ args[3] = mask

\* C19 (as claimed): a range may be built from a string of 0/1 characters:
\* with the mask "111" it produces the elements of the same range with step 1,
\* and an all-zero mask is rejected with ValueError.
C19_BitmaskPattern ==
    /\ CalledWithMask(Str(111)) =>
        /\ pc = "built"
        /\ RangeList(r, MaxIter)
             = RangeList(range(<<args[1], args[2], PyInt(1)>>).val, MaxIter)
    /\ CalledWithMask(Str(0)) => (pc = "raised" /\ exc = "ValueError")

\* the least positive common multiple of a and b
LeastCommonMultiple(a, b) ==
    CHOOSE m \in 1..(a * b) :
        /\ m % a = 0 /\ m % b = 0
        /\ \A k \in 1..(m - 1) : ~(k % a = 0 /\ k % b = 0)

IncludedBelow(steps, d) ==
    LET k == Len(steps)
        period == abs(steps[k])
    IN  Cardinality({x \in 0..(d - 1) :
            x % period = 0 \/ \E j \in 1..(k - 1) : x % period = abs(steps[j])})

\* the elements of rng in order (the first MaxIter + 1 periods of them when
\* the stop is infinite)
ElementList(rng) ==
    LET direction == IF rng.steps[1] < 0 THEN -1 ELSE 1
        offs == IncludedOffsets(rng, (MaxIter + 1) * abs(rng.steps[Len(rng.steps)]))
    IN  [i \in 1..Len(offs) |-> rng.start + direction * offs[i]]

\* C21: two iterators obtained from one range are independent and
\* restartable: under every interleaving of their next() calls each has
\* produced the elements of the range from the beginning, all of them once
\* it is exhausted, and iterating leaves start, stop and steps as built.
C21_IndependentIterators ==
    pc = "built" =>
        /\ IsPrefix(out, ElementList(r)) /\ IsPrefix(out2, ElementList(r))
        /\ it.at = "done" => out = ElementList(r)
        /\ it2.at = "done" => out2 = ElementList(r)
        /\ range(args).exc = "none" /\ r = range(args).val

C21_Witness ==
    /\ pc = "built" /\ Len(r.steps) > 1
    /\ Len(out) >= 3 /\ it.at # "done"
    /\ Len(out2) = 1 /\ it2.at = "y0"

\* a next() call on the iterator: it moves, and not back to its start
C27_NextCalled == pc = "built" /\ it' # it /\ it'.at # "start"

\* C27: iteration is finite iff the stop is finite: with an infinite stop
\* every next() yields one more value and the iterator is never exhausted;
\* with a finite stop every next() either exhausts the iterator or yields a
\* value between start (inclusive) and stop (exclusive), and at most
\* |stop - start| values are yielded before it is exhausted.
C27_FiniteIffStopFinite ==
    [][C27_NextCalled =>
        IF r.stop.t = "inf"
        THEN it'.at # "done" /\ Len(out') = Len(out) + 1
        ELSE \/ it'.at = "done" /\ out' = out
             \/ /\ it'.at # "done" /\ Len(out') = Len(out) + 1
                /\ ~OutsideHalfOpen(r, out'[Len(out')])
                /\ Len(out') <= abs(r.stop.v - r.start)]_vars

C27_Witness ==
    /\ pc = "built" /\ r.stop.t = "int" /\ r.steps[1] < 0
    /\ it.at = "done" /\ Len(out) >= 3

\* C26: for every range with a finite stop len(r) is the number of elements
\* produced by iterating r, and pattern.count(distance) is the number of
\* included offsets in [0, distance).
C26_LenCountsElements ==
    (pc = "built" /\ r.stop.t = "int") =>
        LET direction == IF r.steps[1] < 0 THEN -1 ELSE 1
        IN  /\ lenres.called =>
                /\ lenres.exc = "none"
                /\ lenres.val = Len(RangeList(r, 2 * MaxVal + 1))
                /\ it.at = "done" => lenres.val = Len(out)
            /\ \A d \in 0..(2 * MaxVal + 1) :
                   Pattern_count(r.steps, direction * d) = IncludedBelow(r.steps, d)

C26_Witness ==
    /\ pc = "built" /\ r.stop.t = "int" /\ Len(r.steps) > 1 /\ r.steps[1] < 0
    /\ lenres.called /\ lenres.val >= 3 /\ it.at = "done"

\* steps is non-empty, of non-zero integers, all positive and strictly
\* ascending or all negative and strictly descending; stop is start, or lies
\* on the side of start that steps[0] points to
WellFormed(rng) ==
    /\ Len(rng.steps) >= 1
    /\ rng.steps \in Seq(Int)
    /\ rng.start \in Int
    /\ \/ /\ \A i \in 1..Len(rng.steps) : rng.steps[i] > 0
          /\ \A i \in 1..(Len(rng.steps) - 1) : rng.steps[i] < rng.steps[i + 1]
       \/ /\ \A i \in 1..Len(rng.steps) : rng.steps[i] < 0
          /\ \A i \in 1..(Len(rng.steps) - 1) : rng.steps[i] > rng.steps[i + 1]
    /\ \/ NumEq(rng.stop, PyInt(rng.start))
       \/ rng.steps[1] > 0 /\ Lt(PyInt(rng.start), rng.stop)
       \/ rng.steps[1] < 0 /\ Lt(rng.stop, PyInt(rng.start))

\* C29: every range built by the constructor and every range obtained from
\* it by a chain of +, -, * by a non-zero integer and unary - is well-formed.
C29_WellFormed ==
    /\ pc # "raised" \/ depth = 0
    /\ pc \in {"built", "chained"} => WellFormed(r)

C29_Witness ==
    /\ pc = "chained" /\ depth = MaxDepth
    /\ Len(r.steps) > 1 /\ r.steps[1] < 0 /\ r.stop.t = "inf"
    /\ Len(args) >= 3 /\ args[3].v > 0

\* C30: for a finite range r, the elements of r * k are the elements of r
\* times k and the elements of r + d are the elements of r plus d, in the
\* same order, and the lengths are equal.
C30_ElementWise ==
    (op.name \in {"mul", "add"} /\ prev.stop.t = "int") =>
        LET l == RangeList(prev, 2 * MaxVal + 1)
        IN  /\ pc = "derived"
            /\ RangeList(r, 2 * MaxVal + 1) =
                   [i \in 1..Len(l) |-> IF op.name = "mul" THEN l[i] * op.n
                                        ELSE l[i] + op.n]
            /\ Range_len(r).exc = "none" /\ Range_len(prev).exc = "none"
            /\ Range_len(r).val = Range_len(prev).val
            /\ Range_len(r).val = Len(l)

C30_Witness ==
    /\ pc = "derived" /\ op.name = "mul" /\ op.n < -1
    /\ Len(prev.steps) > 1 /\ Len(RangeList(prev, 2 * MaxVal + 1)) >= 3

\* a call that draws from the generator: decimal(), or bits(count), count > 0
C25_Draws == CallDecimal \/ \E count \in BitCounts \ {0} : BitsCalled(count)

RECURSIVE Pow10(_)
Pow10(n) == IF n = 0 THEN 1 ELSE 10 * Pow10(n - 1)

\* the i-th member of 1, 2, 5, 10, 20, 50, 100, ...
AutorangeCount(i) == Js[((i - 1) % 3) + 1] * Pow10((i - 1) \div 3)

\* Timer.repeat(autorange(min_time), callback='raw') was called
AutorangeRaw == tcall.trials.kind = "autorange" /\ tcall.callback = "raw"

RepeatInts ==
    /\ tcall.name = "repeat" /\ tcall.trials.kind = "int"
    /\ isinstance_int(tcall.iterations)

\* C23: each call of Timer.timeit(iterations) runs setup once, before any
\* run of the statement, reads the timer once after setup and once after the
\* loop, and runs the statement iterations times; Timer.repeat(n,
\* iterations=m) with integers n and m does not raise, runs setup n times
\* and the statement n * m times, and returns a list of n results.
C23_SetupOnceStmtTimes ==
    /\ tpc \in {"t0", "loop", "return"} => inner.setups = 1
    /\ inner.stmts > 0 => inner.setups = 1 /\ inner.reads >= 1
    /\ tpc = "loop" => inner.reads = 1
    /\ tpc = "return" => inner.reads = 2 /\ inner.stmts = fb_value
    /\ RepeatInts =>
          /\ tpc # "raised"
          /\ tpc = "done" =>
                /\ fake.setup_calls = tcall.trials.n
                /\ fake.count = tcall.trials.n * tcall.iterations.v
                /\ Len(results) = tcall.trials.n

\* Timer.timeit(0), or Timer.repeat(n, iterations=0) with n > 0
ZeroIterations ==
    /\ tcall.callback = "none"
    /\ tcall.iterations = PyInt(0)
    /\ tcall.name = "timeit" \/ (tcall.trials.kind = "int" /\ tcall.trials.n > 0)

\* C24: Timer.timeit with 0 iterations does not raise: it runs setup once,
\* the statement never, and returns 0; Timer.repeat with 0 iterations per
\* trial returns a list of 0.0 values.
C24_ZeroIterationsSucceed ==
    ZeroIterations =>
        /\ tpc # "raised"
        /\ (tpc = "done" /\ tcall.name = "timeit") =>
              /\ fake.setup_calls = 1 /\ fake.count = 0
              /\ result.t = "num" /\ result.time = 0
        /\ (tpc = "done" /\ tcall.name = "repeat") =>
              /\ Len(results) = tcall.trials.n
              /\ \A i \in 1..Len(results) :
                    results[i].t = "num" /\ results[i].time = 0

\* what func, the call of Timer.timeit by Timer.repeat, returns for v runs
\* of the statement under the FakeTimer
FuncResult(v) ==
    IF tcall.callback = "raw"
    THEN [t |-> "pair", time |-> v * tcall.seconds_per_increment, n |-> v]
    ELSE [t |-> "num", time |-> tcall.seconds_per_increment, n |-> 0]

\* the values the source of Timer.repeat holds when it is no generator
SourceItems ==
    IF tcall.trials.kind = "list" THEN tcall.trials.items
    ELSE [k \in 1..tcall.trials.n |-> tcall.iterations.v]

\* C28: feedback(source, func) calls func once for each value got from the
\* source and yields func(v) for it, in order; the first value is got by
\* next(source), every later one by source.send(previous result) when the
\* source has send and by next(source) otherwise, where the results are
\* func mapped over the source; feedback ends when the source is exhausted,
\* and for an empty source yields nothing and never calls func. It raises
\* only what func raises (the division by 0 iterations) or what the source
\* raises on the result sent to it (autorange sent a float).
C28_Feedback ==
    tcall.name = "repeat" =>
        /\ Len(results) <= Len(fb.calls) /\ Len(fb.calls) <= Len(results) + 1
        /\ Len(fb.calls) <= Len(fb.got) /\ Len(fb.got) <= Len(fb.calls) + 1
        /\ \A i \in 1..Len(fb.calls) : fb.calls[i] = fb.got[i].val
        /\ \A i \in 1..Len(results) : results[i] = FuncResult(fb.got[i].val)
        /\ \A i \in 1..Len(fb.got) :
              IF i = 1 THEN fb.got[i].how = "next"
              ELSE IF tcall.trials.kind = "autorange"
              THEN fb.got[i].how = "send" /\ fb.got[i].sent = results[i - 1]
              ELSE fb.got[i].how = "next"
        /\ (tpc \in {"feedback", "func", "setup", "t0", "loop", "return", "yield",
                     "resume", "done"}
            /\ tcall.trials.kind \in {"int", "list"}) =>
              /\ Len(fb.got) <= Len(SourceItems)
              /\ \A i \in 1..Len(fb.got) : fb.got[i].val = SourceItems[i]
              /\ tpc = "done" =>
                    results = [i \in 1..Len(SourceItems) |->
                                   FuncResult(SourceItems[i])]
        /\ tpc = "done" =>
              /\ Len(results) = Len(fb.got) /\ Len(fb.calls) = Len(fb.got)
              /\ Source_next(src).exc = "StopIteration"
        /\ (tpc = "raised" /\ fb.got # <<>>) =>
              \/ /\ texc = "ZeroDivisionError" /\ tcall.callback = "none"
                 /\ fb.calls[Len(fb.calls)] = 0 /\ Len(results) = Len(fb.calls) - 1
              \/ /\ texc = "TypeError" /\ tcall.callback = "none"
                 /\ tcall.trials.kind = "autorange" /\ Len(results) = Len(fb.calls)

\* feedback over a generator with send ended after three values, the later
\* two got by send
C28_Witness ==
    /\ tcall.name = "repeat" /\ tpc = "done"
    /\ tcall.trials.kind = "autorange" /\ Len(results) = 3
    /\ fb.got[3].how = "send" /\ fb.got[3].sent = results[2]
    /\ fb.got[3].sent.t = "pair"

====
